---- MODULE Spec2Model ----
(***************************************************************************)
(* Model of 01_input_example/build_manifest.py: a straight-line script     *)
(* that reads manifest.tsv into a table, selects the forward and the       *)
(* reverse rows, renames the filepath column of each selection, inner-     *)
(* joins the two selections on sample-id, writes manifest_v2.tsv and       *)
(* prints a confirmation.                                                  *)
(*                                                                         *)
(* A table is a record [columns, rows]: columns is the ordered list of     *)
(* column names, rows a sequence of functions from column name to cell     *)
(* value.  The cell values are the values pd.read_csv hands to the script  *)
(* (the table df of line 3); every statement about "input rows" below is   *)
(* a statement about the rows of df.                                       *)
(***************************************************************************)
EXTENDS Integers, Sequences, FiniteSets, TLC

VARIABLES pc, manifest_tsv, df, fwd, rev, manifest_v2,
          manifest_v2_tsv, stdout, error

vars == <<pc, manifest_tsv, df, fwd, rev, manifest_v2,
          manifest_v2_tsv, stdout, error>>

(* ---------------- bounds of the explored inputs ---------------- *)
MaxRows == 4
NumSamples == 2

\* The script compares sample-ids for equality only and never looks into a
\* filepath.  The inputs explored give every row its own filepath (the row
\* can then be recognised in the output) or give all rows the same one
\* (rows can then be exact duplicates).
SampleNames == <<"S1", "S2", "S3", "S4">>
PathNames == <<"/a/1.fastq", "/a/2.fastq", "/a/3.fastq", "/a/4.fastq",
               "/a/5.fastq", "/a/6.fastq">>
SampleIds == {SampleNames[i] : i \in 1..NumSamples}
Paths == {PathNames[i] : i \in 1..MaxRows}
PathSchemes == {"own", "shared"}
PathAt(scheme, i) == IF scheme = "shared" THEN PathNames[1] ELSE PathNames[i]
\* "unknown" stands for every direction cell that is neither literal
Directions == {"forward", "reverse", "unknown"}

(* ---------------- literals of the script ---------------- *)
ColSample == "sample-id"
ColDirection == "direction"
ColPath == "absolute-filepath"
ColFwdPath == "forward-absolute-filepath"
ColRevPath == "reverse-absolute-filepath"
SuccessMessage == "manifest_v2.tsv created successfully"

InputColumns == <<ColSample, ColDirection, ColPath>>
\* a name the script has not assigned yet (a table always has columns)
Unset == [columns |-> <<>>, rows |-> <<>>]
\* manifest_v2.tsv as it was before the run (absent, or a previous file)
Untouched == [state |-> "untouched", header |-> <<>>, rows |-> <<>>]

(* ---------------- helpers on sequences ---------------- *)
Range(s) == {s[i] : i \in 1..Len(s)}

SeqsUpTo(S, n) == UNION {[1..k -> S] : k \in 0..n}

RECURSIVE Concat(_)
Concat(ss) == IF ss = <<>> THEN <<>> ELSE Head(ss) \o Concat(Tail(ss))

RECURSIVE Dedup(_)
\* the distinct elements of s in order of first appearance
Dedup(s) ==
    IF s = <<>> THEN <<>>
    ELSE LET h == Head(s)
             Keep(x) == x # h
         IN <<h>> \o Dedup(SelectSeq(Tail(s), Keep))

(* ---------------- the input file ---------------- *)
\* headers a tab-separated file can have, restricted to the three columns
\* the script uses, in file order
HeaderOf(S) == LET In(c) == c \in S IN SelectSeq(InputColumns, In)
Headers == {HeaderOf(S) : S \in (SUBSET Range(InputColumns)) \ {{}}}

CellDomain(c) == IF c = ColSample THEN SampleIds ELSE Directions

\* the cells of a row other than its filepath
KeyCells(header) ==
    LET cols == Range(header) \ {ColPath}
    IN {r \in [cols -> SampleIds \cup Directions] :
           \A c \in cols : r[c] \in CellDomain(c)}

WithPath(cells, header, p) ==
    [c \in Range(header) |-> IF c = ColPath THEN p ELSE cells[c]]

\* the tables read_csv can return for a file with this header
Tables(header) ==
    {[columns |-> header,
      rows |-> [i \in 1..Len(ks) |-> WithPath(ks[i], header, PathAt(sch, i))]] :
         ks \in SeqsUpTo(KeyCells(header), MaxRows), sch \in PathSchemes}

(* ---------------- table operations ---------------- *)
HasColumns(t, cols) == Range(cols) \subseteq Range(t.columns)

\* variant: the comparison keeps every row that is not of the opposite
\* direction (!= instead of ==)
SelectRenameNotOpposite(t, col, value, cols, newcols) ==
    LET opposite == IF value = "forward" THEN "reverse" ELSE "forward"
        Match(r) == r[col] # opposite
        Project(r) == [c \in Range(newcols) |->
                          r[cols[CHOOSE i \in 1..Len(cols) : newcols[i] = c]]]
        sel == SelectSeq(t.rows, Match)
    IN [columns |-> newcols, rows |-> [i \in 1..Len(sel) |-> Project(sel[i])]]

\* t[t[col] == value][cols] followed by the assignment to .columns
SelectRename(t, col, value, cols, newcols) ==
    LET Match(r) == r[col] = value
        Project(r) == [c \in Range(newcols) |->
                          r[cols[CHOOSE i \in 1..Len(cols) : newcols[i] = c]]]
        sel == SelectSeq(t.rows, Match)
    IN [columns |-> newcols, rows |-> [i \in 1..Len(sel) |-> Project(sel[i])]]

\* variant: the two filepath columns exchanged
JoinRowSwapped(l, r) ==
    [c \in {ColSample, ColFwdPath, ColRevPath} |->
        IF c = ColRevPath THEN l[ColFwdPath]
        ELSE IF c = ColFwdPath THEN r[ColRevPath] ELSE l[c]]

JoinRow(l, r) ==
    [c \in {ColSample, ColFwdPath, ColRevPath} |->
        IF c = ColRevPath THEN r[ColRevPath] ELSE l[c]]

\* variant: only the first matching right row is kept
MatchesOfFirst(l, right) ==
    LET Same(r) == r[ColSample] = l[ColSample]
        m == SelectSeq(right, Same)
    IN IF m = <<>> THEN <<>> ELSE <<JoinRow(l, m[1])>>

\* the right rows matching one left row, in right order
MatchesOf(l, right) ==
    LET Same(r) == r[ColSample] = l[ColSample]
        m == SelectSeq(right, Same)
    IN [i \in 1..Len(m) |-> JoinRow(l, m[i])]

\* variant: the result follows the order of the right rows
MergeRightOrder(left, right) ==
    LET RowsFor(r) == LET Same(l) == l[ColSample] = r[ColSample]
                          m == SelectSeq(left, Same)
                      IN [i \in 1..Len(m) |-> JoinRow(m[i], r)]
    IN Concat([j \in 1..Len(right) |-> RowsFor(right[j])])

\* inner join keeping the order of the left rows (pandas >= 2.2)
MergeLeftOrder(left, right) ==
    Concat([i \in 1..Len(left) |-> MatchesOf(left[i], right)])

\* inner join that emits the rows key by key, keys in order of first
\* appearance on the left (pandas < 2.2)
MergeGrouped(left, right) ==
    LET keys == Dedup([i \in 1..Len(left) |-> left[i][ColSample]])
        Group(k) == LET Is(l) == l[ColSample] = k IN SelectSeq(left, Is)
    IN Concat([j \in 1..Len(keys) |-> MergeLeftOrder(Group(keys[j]), right)])

JoinOrders == {"left", "grouped"}

Missing == "NaN"

\* variant: how="cross", every left row paired with every right row
MergeCross(l, r, order) ==
    [columns |-> <<ColSample, ColFwdPath, ColRevPath>>,
     rows |-> Concat([i \in 1..Len(l.rows) |->
                 [j \in 1..Len(r.rows) |-> JoinRow(l.rows[i], r.rows[j])]])]

\* a left row without partner, as how="left" and how="outer" emit it
LeftAlone(l) ==
    [c \in {ColSample, ColFwdPath, ColRevPath} |->
        IF c = ColRevPath THEN Missing ELSE l[c]]

\* a right row without partner, as how="outer" emits it
RightAlone(r) ==
    [c \in {ColSample, ColFwdPath, ColRevPath} |->
        IF c = ColFwdPath THEN Missing ELSE r[c]]

\* variant: how="left", left rows without partner are kept
MergeLeftJoin(l, r, order) ==
    [columns |-> <<ColSample, ColFwdPath, ColRevPath>>,
     rows |-> Concat([i \in 1..Len(l.rows) |->
                 IF MatchesOf(l.rows[i], r.rows) = <<>>
                 THEN <<LeftAlone(l.rows[i])>>
                 ELSE MatchesOf(l.rows[i], r.rows)])]

\* variant: how="outer", rows without partner are kept on both sides
MergeOuter(l, r, order) ==
    LET Lonely(x) == \A i \in 1..Len(l.rows) : l.rows[i][ColSample] # x[ColSample]
        lonely == SelectSeq(r.rows, Lonely)
    IN [columns |-> <<ColSample, ColFwdPath, ColRevPath>>,
        rows |-> MergeLeftJoin(l, r, order).rows
                 \o [i \in 1..Len(lonely) |-> RightAlone(lonely[i])]]

\* pd.merge(fwd, rev, on="sample-id"): how="inner", sort=False
Merge(l, r, order) ==
    [columns |-> <<ColSample, ColFwdPath, ColRevPath>>,
     rows |-> IF order = "left" THEN MergeLeftOrder(l.rows, r.rows)
              ELSE MergeGrouped(l.rows, r.rows)]

\* variant: nothing is written for a table without rows
CsvFileSkipEmpty(t) ==
    [state |-> "complete",
     header |-> IF t.rows = <<>> THEN <<>> ELSE t.columns,
     rows |-> t.rows]

\* the content to_csv(sep="\t", index=False) writes: header line, then rows
CsvFile(t) == [state |-> "complete", header |-> t.columns, rows |-> t.rows]

\* what a failed write can leave behind
PartialFiles(t) ==
    {Untouched, [state |-> "partial", header |-> <<>>, rows |-> <<>>]}
    \cup {[state |-> "partial", header |-> t.columns, rows |-> SubSeq(t.rows, 1, k)] :
             k \in 0..(Len(t.rows) - 1)}

(* ---------------- control ---------------- *)
\* variant: the confirmation is printed before the file is written
NextLinePrintFirst(line) ==
    CASE line = "read_csv" -> "select_fwd"
      [] line = "select_fwd" -> "select_rev"
      [] line = "select_rev" -> "merge"
      [] line = "merge" -> "print"
      [] line = "print" -> "to_csv"
      [] line = "to_csv" -> "done"

\* the statement that follows a statement that completed
NextLine(line) ==
    CASE line = "read_csv" -> "select_fwd"
      [] line = "select_fwd" -> "select_rev"
      [] line = "select_rev" -> "merge"
      [] line = "merge" -> "to_csv"
      [] line = "to_csv" -> "print"
      [] line = "print" -> "done"

\* variant: the exception is caught and ignored
AbortSwallowed(e) == pc' = NextLine(pc) /\ error' = e

\* an uncaught exception ends the run
Abort(e) == pc' = "aborted" /\ error' = e

Init ==
    /\ pc = "read_csv"
    /\ manifest_tsv \in {"missing", "unreadable", "empty", "table"}
    /\ df = Unset /\ fwd = Unset /\ rev = Unset /\ manifest_v2 = Unset
    /\ manifest_v2_tsv = Untouched
    /\ stdout = <<>>
    /\ error = "none"

\* line 3, the file cannot be read or holds no header
ReadCsvFails ==
    /\ pc = "read_csv"
    /\ manifest_tsv # "table"
    /\ Abort(CASE manifest_tsv = "missing" -> "FileNotFoundError"
               [] manifest_tsv = "unreadable" -> "PermissionError"
               [] manifest_tsv = "empty" -> "EmptyDataError")
    /\ UNCHANGED <<manifest_tsv, df, fwd, rev, manifest_v2,
                   manifest_v2_tsv, stdout>>

\* line 3: df is any table read_csv can return; its cells are the values
\* read_csv inferred from the text of the file, and lines 5-12 only ever see
\* these values
ReadCsv ==
    /\ pc = "read_csv"
    /\ manifest_tsv = "table"
    /\ \E h \in Headers : \E t \in Tables(h) : df' = t
    /\ pc' = NextLine(pc)
    /\ UNCHANGED <<manifest_tsv, fwd, rev, manifest_v2,
                   manifest_v2_tsv, stdout, error>>

\* lines 5-6 and 8-9, a column is missing
SelectFails ==
    /\ pc \in {"select_fwd", "select_rev"}
    /\ ~HasColumns(df, InputColumns)
    /\ Abort("KeyError")
    /\ UNCHANGED <<manifest_tsv, df, fwd, rev, manifest_v2,
                   manifest_v2_tsv, stdout>>

\* lines 5-6
SelectFwd ==
    /\ pc = "select_fwd"
    /\ HasColumns(df, InputColumns)
    /\ fwd' = SelectRename(df, ColDirection, "forward",
                           <<ColSample, ColPath>>, <<ColSample, ColFwdPath>>)
    /\ pc' = NextLine(pc)
    /\ UNCHANGED <<manifest_tsv, df, rev, manifest_v2,
                   manifest_v2_tsv, stdout, error>>

\* lines 8-9
SelectRev ==
    /\ pc = "select_rev"
    /\ HasColumns(df, InputColumns)
    /\ rev' = SelectRename(df, ColDirection, "reverse",
                           <<ColSample, ColPath>>, <<ColSample, ColRevPath>>)
    /\ pc' = NextLine(pc)
    /\ UNCHANGED <<manifest_tsv, df, fwd, manifest_v2,
                   manifest_v2_tsv, stdout, error>>

\* line 11
MergeStep ==
    /\ pc = "merge"
    /\ \E o \in JoinOrders : manifest_v2' = Merge(fwd, rev, o)
    /\ pc' = NextLine(pc)
    /\ UNCHANGED <<manifest_tsv, df, fwd, rev, manifest_v2_tsv, stdout, error>>

\* line 12
ToCsv ==
    /\ pc = "to_csv"
    /\ manifest_v2_tsv' = CsvFile(manifest_v2)
    /\ pc' = NextLine(pc)
    /\ UNCHANGED <<manifest_tsv, df, fwd, rev, manifest_v2, stdout, error>>

\* line 12, the file cannot be opened or the write breaks off
ToCsvFails ==
    /\ pc = "to_csv"
    /\ \E f \in PartialFiles(manifest_v2) : manifest_v2_tsv' = f
    /\ Abort("OSError")
    /\ UNCHANGED <<manifest_tsv, df, fwd, rev, manifest_v2, stdout>>

\* line 14
PrintStep ==
    /\ pc = "print"
    /\ stdout' = Append(stdout, SuccessMessage)
    /\ pc' = NextLine(pc)
    /\ UNCHANGED <<manifest_tsv, df, fwd, rev, manifest_v2,
                   manifest_v2_tsv, error>>

Next ==
    \/ ReadCsvFails
    \/ ReadCsv
    \/ SelectFails
    \/ SelectFwd
    \/ SelectRev
    \/ MergeStep
    \/ ToCsv
    \/ ToCsvFails
    \/ PrintStep

Spec == Init /\ [][Next]_vars


(***************************************************************************)
(* Vocabulary of the properties.  "Input rows" are the rows of df, "output *)
(* rows" the rows of the completely written manifest_v2.tsv.                *)
(***************************************************************************)
InputLoaded == HasColumns(df, InputColumns)
OutputWritten == manifest_v2_tsv.state = "complete"
OutRows == manifest_v2_tsv.rows
OutputHeader == <<ColSample, ColFwdPath, ColRevPath>>

\* number of input rows of sample s in direction d
InCount(s, d) ==
    Cardinality({i \in 1..Len(df.rows) :
                    df.rows[i][ColSample] = s /\ df.rows[i][ColDirection] = d})

\* number of input rows of sample s in direction d with filepath p
InCountPath(s, d, p) ==
    Cardinality({i \in 1..Len(df.rows) :
                    /\ df.rows[i][ColSample] = s
                    /\ df.rows[i][ColDirection] = d
                    /\ df.rows[i][ColPath] = p})

InSamples == {df.rows[i][ColSample] : i \in 1..Len(df.rows)}
OutSamples == {OutRows[i][ColSample] : i \in 1..Len(OutRows)}
OutCount(s) == Cardinality({i \in 1..Len(OutRows) : OutRows[i][ColSample] = s})

ExactlyOnePerDirection ==
    \A s \in InSamples : InCount(s, "forward") = 1 /\ InCount(s, "reverse") = 1

UniquePerDirection ==
    \A s \in InSamples : InCount(s, "forward") <= 1 /\ InCount(s, "reverse") <= 1

\* the input without the rows whose direction is neither literal
Strip(t) ==
    LET Known(r) == r[ColDirection] \in {"forward", "reverse"}
    IN [t EXCEPT !.rows = SelectSeq(t.rows, Known)]

(* ---------------- C1 ---------------- *)
\* C1: when every sample-id of the input has exactly one forward row and
\* exactly one reverse row, the number of rows written equals the number of
\* distinct sample-ids of the input.
C1_RowCountEqualsSamples ==
    (OutputWritten /\ ExactlyOnePerDirection)
        => Len(OutRows) = Cardinality(InSamples)

C1_Witness ==
    /\ pc = "done"
    /\ ExactlyOnePerDirection
    /\ Cardinality(InSamples) = 2
    /\ Len(OutRows) = 2

(* ---------------- C2 ---------------- *)
\* C2: each output row carries, as forward filepath, the filepath of a
\* forward input row of the same sample-id and, as reverse filepath, the
\* filepath of a reverse input row of the same sample-id.
C2_FilepathsComeFromInput ==
    OutputWritten =>
        \A i \in 1..Len(OutRows) :
            /\ InCountPath(OutRows[i][ColSample], "forward", OutRows[i][ColFwdPath]) > 0
            /\ InCountPath(OutRows[i][ColSample], "reverse", OutRows[i][ColRevPath]) > 0

\* two samples whose files differ, and a sample whose two files differ
C2_Witness ==
    /\ pc = "done"
    /\ Len(OutRows) = 2
    /\ OutRows[1][ColSample] # OutRows[2][ColSample]
    /\ OutRows[1][ColFwdPath] # OutRows[1][ColRevPath]
    /\ OutRows[1][ColFwdPath] # OutRows[2][ColFwdPath]

(* ---------------- C3 ---------------- *)
OneDirectionOnly(s) ==
    \/ InCount(s, "forward") > 0 /\ InCount(s, "reverse") = 0
    \/ InCount(s, "reverse") > 0 /\ InCount(s, "forward") = 0

BothDirections(s) == InCount(s, "forward") > 0 /\ InCount(s, "reverse") > 0

ExampleRow(s, d, p) ==
    [c \in Range(InputColumns) |->
        IF c = ColSample THEN s ELSE IF c = ColDirection THEN d ELSE p]

\* (S1,forward), (S1,reverse), (S2,forward)
ExampleInput ==
    <<ExampleRow("S1", "forward", "/a/1.fastq"),
      ExampleRow("S1", "reverse", "/a/2.fastq"),
      ExampleRow("S2", "forward", "/a/3.fastq")>>

\* C3: a sample-id with rows in one direction only is never in the output,
\* a sample-id with a forward and a reverse row always is; the example input
\* (S1,forward),(S1,reverse),(S2,forward) yields the single row of S1.
C3_InnerJoinMembership ==
    OutputWritten =>
        /\ \A s \in SampleIds :
              /\ OneDirectionOnly(s) => s \notin OutSamples
              /\ BothDirections(s) => s \in OutSamples
        /\ df.rows = ExampleInput =>
              /\ Len(OutRows) = 1
              /\ OutRows[1][ColSample] = "S1"
              /\ OutRows[1][ColFwdPath] = "/a/1.fastq"
              /\ OutRows[1][ColRevPath] = "/a/2.fastq"

C3_Witness ==
    /\ pc = "done"
    /\ df.rows = ExampleInput
    /\ OutSamples = {"S1"}

(* ---------------- C4 ---------------- *)
\* C4 as stated: every sample-id of the output has exactly one forward row
\* and exactly one reverse row in the input, whatever the accepted input.
C4_ExactlyOneEach ==
    OutputWritten =>
        \A s \in OutSamples : InCount(s, "forward") = 1 /\ InCount(s, "reverse") = 1

\* C4 amended: every sample-id of the output has at least one forward row
\* and at least one reverse row in the input, and exactly one of each when
\* sample-ids are unique within each direction.
C4_AtLeastOneEach ==
    OutputWritten =>
        \A s \in OutSamples :
            /\ InCount(s, "forward") >= 1 /\ InCount(s, "reverse") >= 1
            /\ UniquePerDirection =>
                  InCount(s, "forward") = 1 /\ InCount(s, "reverse") = 1

\* an accepted input with a repeated forward row reaches the output
C4_Witness ==
    /\ pc = "done"
    /\ \E s \in OutSamples : InCount(s, "forward") = 2 /\ InCount(s, "reverse") = 1

(* ---------------- C5 ---------------- *)
OutCountPaths(s, pf, pr) ==
    Cardinality({i \in 1..Len(OutRows) :
                    /\ OutRows[i][ColSample] = s
                    /\ OutRows[i][ColFwdPath] = pf
                    /\ OutRows[i][ColRevPath] = pr})

\* C5: a sample-id with f forward rows and r reverse rows contributes f*r
\* output rows, one per pairing of a forward row with a reverse row of that
\* sample-id (a pairing of equal rows is repeated, not deduplicated).
C5_CrossProduct ==
    OutputWritten =>
        /\ \A s \in SampleIds :
              OutCount(s) = InCount(s, "forward") * InCount(s, "reverse")
        /\ \A i \in 1..Len(OutRows) :
              OutCountPaths(OutRows[i][ColSample], OutRows[i][ColFwdPath],
                            OutRows[i][ColRevPath])
                = InCountPath(OutRows[i][ColSample], "forward", OutRows[i][ColFwdPath])
                  * InCountPath(OutRows[i][ColSample], "reverse", OutRows[i][ColRevPath])
        /\ \A i, j \in 1..Len(df.rows) :
              (/\ df.rows[i][ColDirection] = "forward"
               /\ df.rows[j][ColDirection] = "reverse"
               /\ df.rows[i][ColSample] = df.rows[j][ColSample])
              => OutCountPaths(df.rows[i][ColSample], df.rows[i][ColPath],
                               df.rows[j][ColPath]) > 0

C5_Witness ==
    /\ pc = "done"
    /\ \E s \in SampleIds :
          /\ InCount(s, "forward") = 2
          /\ InCount(s, "reverse") = 2
          /\ OutCount(s) = 4

(* ---------------- C6 ---------------- *)
InputFailure ==
    \/ manifest_tsv # "table"
    \/ df # Unset /\ ~InputLoaded

\* C6: when the input is missing, unreadable or lacks a required column the
\* run never gets past the failing statement, manifest_v2.tsv stays as it
\* was and nothing is printed; manifest_v2.tsv is only touched once the
\* join has been computed.
C6_NoOutputOnFailure ==
    /\ InputFailure =>
          /\ pc \in {"read_csv", "select_fwd", "aborted"}
          /\ manifest_v2_tsv = Untouched
          /\ stdout = <<>>
    /\ manifest_v2_tsv # Untouched =>
          /\ manifest_v2 # Unset
          /\ pc \in {"print", "done", "aborted"}

C6_Witness ==
    /\ pc = "aborted"
    /\ error = "KeyError"
    /\ Len(df.rows) > 0
    /\ manifest_v2_tsv = Untouched

(* ---------------- C7 ---------------- *)
NoCommonSample == \A s \in SampleIds : ~BothDirections(s)

\* C7: when no sample-id has both a forward and a reverse row (a header-only
\* input included) the run raises no error of its own: the file written
\* holds the header row only and the success message is printed.
C7_EmptyJoinIsNotAnError ==
    (InputLoaded /\ NoCommonSample) =>
        /\ pc = "aborted" => error = "OSError"
        /\ OutputWritten =>
              /\ manifest_v2_tsv.header = OutputHeader
              /\ OutRows = <<>>
        /\ pc = "done" => OutputWritten /\ stdout = <<SuccessMessage>>

C7_Witness ==
    /\ pc = "done"
    /\ InputLoaded
    /\ df.rows = <<>>
    /\ manifest_v2_tsv.header = OutputHeader
    /\ stdout = <<SuccessMessage>>

(* ---------------- C8 ---------------- *)
\* C8: the steps run in the order read, join, write, print: the join exists
\* only after the read, the file is touched only after the join, and the
\* confirmation is printed at most once, only with the file completely
\* written from the join result.
C8_PrintAfterWrite ==
    /\ manifest_v2 # Unset => df # Unset
    /\ manifest_v2_tsv # Untouched => manifest_v2 # Unset
    /\ Len(stdout) <= 1
    /\ stdout # <<>> =>
          /\ stdout = <<SuccessMessage>>
          /\ manifest_v2_tsv = CsvFile(manifest_v2)
          /\ pc = "done"

C8_Witness ==
    /\ pc = "done"
    /\ stdout = <<SuccessMessage>>
    /\ Len(OutRows) > 0

ForwardOrder ==
    LET Paired(r) == r[ColDirection] = "forward"
                       /\ InCount(r[ColSample], "reverse") > 0
        sel == SelectSeq(df.rows, Paired)
    IN [i \in 1..Len(sel) |-> sel[i][ColSample]]

\* C10: with sample-ids unique within each direction the output rows follow
\* the order of the forward rows of the input, whatever the order of the
\* reverse rows.
C10_ForwardOrderKept ==
    (OutputWritten /\ UniquePerDirection)
        => [i \in 1..Len(OutRows) |-> OutRows[i][ColSample]] = ForwardOrder

\* the reverse rows come in the opposite order of the forward rows
C10_Witness ==
    /\ pc = "done"
    /\ UniquePerDirection
    /\ Len(OutRows) = 2
    /\ Len(df.rows) = 4
    /\ df.rows[1][ColDirection] = "forward"
    /\ df.rows[2][ColDirection] = "forward"
    /\ df.rows[3][ColSample] = df.rows[2][ColSample]
    /\ df.rows[3][ColDirection] = "reverse"
    /\ df.rows[4][ColSample] = df.rows[1][ColSample]
    /\ df.rows[4][ColDirection] = "reverse"

====
